---- MODULE Spec2Model ----
(***************************************************************************)
(* Model of the SU2 workflow: the pipeline of automation.py (validation,   *)
(* solver run, artifact check, post-processing run) and the script plot.py *)
(* it runs: the experimental data parser (load_exp_data), the sampling of   *)
(* the solution (process_simulation_data) and the plots (create_plots).     *)
(*                                                                         *)
(* Text is a sequence of character codes; NL is the newline character.     *)
(***************************************************************************)
EXTENDS Integers, Sequences, FiniteSets, TLC

\* ------------------------------------------------------------------ bounds
\* Largest number of lines the solver stub writes to its standard output.
MaxStdoutLines == 22
\* Seconds of wall-clock time one Tick of the model advances.
TickSeconds == 1800
\* Longest time the model lets the post-processing process run (it has no
\* timeout in the code; the cap only keeps the clock finite).
MaxPlotSeconds == 5400

\* ------------------------------------------------------- program constants
\* subprocess.run(..., timeout=3600)
SU2_TIMEOUT == 3600
\* e.stdout.splitlines()[-20:]
TAIL_LINES == 20
\* "\n"
NL == 10

CONFIG_FILE == "config_sa.cfg"
PLOT_SCRIPT == "plot.py"
MESH_FILE == "047.su2"
OUTPUT_FILE == "vol_solution.vtu"
MIN_PYTHON == <<3, 11>>

InputFiles == {CONFIG_FILE, PLOT_SCRIPT, MESH_FILE}
AllFiles == InputFiles \cup {OUTPUT_FILE}

\* plot.py, lines 10-16. Speeds are in 0.01 m/s and lengths in 1e-4 mm, the
\* units in which the configured values are whole numbers.
x_positions_mm == <<1, 50, 200, 650, 950>>
U1 == 2240
deltaU == 1914
DELTA_OMEGA == (1 :> 52360) @@ (50 :> 88583) @@ (200 :> 137710) @@
               (650 :> 358940) @@ (950 :> 505470)

\* ------------------------------------------------------------ pure helpers
Min(a, b) == IF a < b THEN a ELSE b

\* Python's tuple comparison a < b (lexicographic; a proper prefix is less).
RECURSIVE TupleLess(_, _)
TupleLess(a, b) ==
    IF b = <<>> THEN FALSE
    ELSE IF a = <<>> THEN TRUE
    ELSE IF Head(a) < Head(b) THEN TRUE
    ELSE IF Head(a) > Head(b) THEN FALSE
    ELSE TupleLess(Tail(a), Tail(b))

\* str.splitlines(): the lines of a text, without their line ends; a final
\* line end opens no further (empty) line. NL is the only line boundary that
\* occurs in the texts of the model.
RECURSIVE SplitFrom(_, _, _)
SplitFrom(text, i, cur) ==
    IF i > Len(text) THEN (IF cur = <<>> THEN <<>> ELSE <<cur>>)
    ELSE IF text[i] = NL THEN <<cur>> \o SplitFrom(text, i + 1, <<>>)
    ELSE SplitFrom(text, i + 1, Append(cur, text[i]))

splitlines(text) == SplitFrom(text, 1, <<>>)

\* "\n".join(lines)
RECURSIVE join(_)
join(lines) ==
    IF lines = <<>> THEN <<>>
    ELSE IF Len(lines) = 1 THEN lines[1]
    ELSE lines[1] \o <<NL>> \o join(Tail(lines))

\* Mutant of LastItems: the slice s[:k], the first k items.
LastItems_head(s, k) == SubSeq(s, 1, IF Len(s) < k THEN Len(s) ELSE k)

\* The Python slice s[-k:] : the start index -k + len(s) is clipped to 0.
LastItems(s, k) ==
    LET start == IF Len(s) - k < 0 THEN 0 ELSE Len(s) - k
    IN  SubSeq(s, start + 1, Len(s))

\* The standard output of the solver stub: n lines, line i being the single
\* character 100 + i, with or without a final line end.
RECURSIVE NumberedLines(_)
NumberedLines(n) ==
    IF n = 0 THEN <<>> ELSE Append(NumberedLines(n - 1), <<100 + n>>)

StubText(n, trailing) ==
    join(NumberedLines(n)) \o (IF trailing /\ n > 0 THEN <<NL>> ELSE <<>>)

StdoutTexts ==
    {StubText(n, t) : n \in 0..MaxStdoutLines, t \in BOOLEAN}
        \cup {<<101, NL, NL, 102>>, <<NL>>}

StderrTexts == {<<>>, <<69, 82, 82>>}
ExitCodes == {0, 1, 2}
PythonVersions == {<<2, 7, 18>>, <<3, 10, 4>>, <<3, 11, 0>>, <<3, 12, 1>>}

\* One call of print(): which message, and the number, the text and the list
\* of names it embeds.
Msg(tag, code, text) == [tag |-> tag, code |-> code, text |-> text, names |-> <<>>]
MsgNames(tag, names) == [tag |-> tag, code |-> 0, text |-> <<>>, names |-> names]

\* ------------------------------------------------------------------- state
VARIABLES
    pc,             \* position of main(): the stage it is in
    exitStatus,     \* exit status of the program, -1 while it runs
    su2_in_path,    \* shutil.which("SU2_CFD") finds the solver
    version_info,   \* sys.version_info (major, minor, micro)
    exists,         \* the file system: which of AllFiles exist
    missing,        \* check_files: the list of missing names
    running,        \* the external processes now running
    elapsed,        \* seconds the running process has run
    returncode,     \* solver's exit code, -1 none
    stdout,         \* solver's captured standard output
    stderr,         \* solver's captured standard error
    su2_wrote,      \* the solver process wrote the solution artifact
    plot_returncode,\* post-processing's exit code, -1 none
    printed,        \* the print() calls made, in order
    su2Launches,    \* number of solver processes started
    plotLaunches,   \* number of post-processing processes started
    artifactAtCheck,\* what the artifact check saw: "unchecked", "present", "absent"
    stages,         \* the stages entered, in order
    \* plot.py, load_exp_data
    exp_file_exists,\* exp_data.dat exists
    file_lines,     \* the lines of exp_data.dat, without their line ends
    lpc,            \* position in load_exp_data
    lines,          \* the stripped lines kept by line 27
    idx,            \* index in lines of the next line of the loop
    current_x,      \* <<>> for None, <<key>> for the open zone
    current_data,   \* the rows accumulated
    exp_data,       \* the result: key -> rows (Y_mm, U_m_s, U_norm)
    \* plot.py, configuration, process_simulation_data, create_plots, __main__
    delta_omega,    \* the length scales: key -> 1e-4 mm
    solution,       \* vol_solution.vtu when read: "unreadable", "no_velocity", "ok"
    ppc,            \* position of plot.py
    results,        \* process_simulation_data: the profiles sampled so far
    sidx,           \* index in x_positions_mm of the next position to sample
    sim_results,    \* <<>> unbound, <<results>> once returned
    plots_dir,      \* the directory plots exists
    fidx,           \* index in x_positions_mm of the next figure
    images,         \* the images saved: key -> the series drawn
    plot_out,       \* the print() calls of plot.py, in order
    plot_status     \* exit status of plot.py, -1 while it runs

pipeVars == <<pc, exitStatus, su2_in_path, version_info, exists, missing,
              running, elapsed, returncode, stdout, stderr, su2_wrote,
              plot_returncode,
              printed,
              su2Launches, plotLaunches, artifactAtCheck, stages>>

loadVars == <<exp_file_exists, file_lines, lpc, lines, idx, current_x,
              current_data, exp_data>>

plotVars == <<delta_omega, solution, ppc, results, sidx, sim_results,
              plots_dir, fidx, images, plot_out, plot_status>>

scriptVars == <<loadVars, plotVars>>

vars == <<pipeVars, loadVars, plotVars>>

envVars == <<su2_in_path, version_info>>
su2Result == <<returncode, stdout, stderr, su2_wrote>>
procResults == <<su2Result, plot_returncode>>

Goto(stage) == /\ pc' = stage
               /\ stages' = Append(stages, stage)

\* sys.exit(1) after printing msgs
Exit1(msgs) == /\ printed' = printed \o msgs
               /\ exitStatus' = 1
               /\ Goto("exited")

\* main(): except Exception as e: print("Fatal error"); sys.exit(1)
MainFatal(msg) == Exit1(<<msg>>)

\* load_exp_data has not been called.
LoadIdle ==
    /\ exp_file_exists = TRUE
    /\ file_lines = <<>>
    /\ lpc = "idle"
    /\ lines = <<>>
    /\ idx = 0
    /\ current_x = <<>>
    /\ current_data = <<>>
    /\ exp_data = <<>>

\* plot.py is not running (its process is a black box of the pipeline).
PlotIdle ==
    /\ delta_omega = DELTA_OMEGA
    /\ solution = "ok"
    /\ ppc = "idle"
    /\ results = <<>>
    /\ sidx = 0
    /\ sim_results = <<>>
    /\ plots_dir = FALSE
    /\ fidx = 0
    /\ images = <<>>
    /\ plot_out = <<>>
    /\ plot_status = -1

Init ==
    /\ LoadIdle
    /\ PlotIdle
    /\ pc = "main"
    /\ exitStatus = -1
    /\ su2_in_path \in BOOLEAN
    /\ version_info \in PythonVersions
    /\ exists \in [AllFiles -> BOOLEAN]
    /\ missing = <<>>
    /\ running = {}
    /\ elapsed = 0
    /\ returncode = -1
    /\ stdout = <<>>
    /\ stderr = <<>>
    /\ su2_wrote = FALSE
    /\ plot_returncode = -1
    /\ printed = <<>>
    /\ su2Launches = 0
    /\ plotLaunches = 0
    /\ artifactAtCheck = "unchecked"
    /\ stages = <<"main">>

\* main(), lines 97-108: resolve the paths, print the banner.
main_start ==
    /\ pc = "main"
    /\ UNCHANGED scriptVars
    /\ printed' = Append(printed, Msg("banner", 0, <<>>))
    /\ Goto("check_dependencies")
    /\ UNCHANGED <<exitStatus, envVars, exists, missing, running, elapsed,
                   procResults, su2Launches, plotLaunches, artifactAtCheck>>

check_dependencies ==
    /\ pc = "check_dependencies"
    /\ UNCHANGED scriptVars
    /\ IF ~su2_in_path
         THEN /\ MainFatal(Msg("Fatal error: SU2_CFD not found", 0, <<>>))
       ELSE IF TupleLess(version_info, MIN_PYTHON)
         THEN /\ MainFatal(Msg("Fatal error: Requires Python 3.11+", 0, <<>>))
       ELSE /\ printed' = Append(printed, Msg("dependencies verified", 0, <<>>))
            /\ Goto("check_files")
            /\ UNCHANGED exitStatus
    /\ UNCHANGED <<envVars, exists, missing, running, elapsed, procResults,
                   su2Launches, plotLaunches, artifactAtCheck>>

\* Mutant of MissingOf: the scan stops at the first missing file.
MissingOf_firstOnly(fs) ==
    IF ~fs[CONFIG_FILE] THEN <<CONFIG_FILE>>
    ELSE IF ~fs[PLOT_SCRIPT] THEN <<PLOT_SCRIPT>>
    ELSE IF ~fs[MESH_FILE] THEN <<MESH_FILE>>
    ELSE <<>>

\* The list check_files builds: the names of the missing files, in the order
\* config, plot script, mesh.
MissingOf(fs) ==
    (IF ~fs[CONFIG_FILE] THEN <<CONFIG_FILE>> ELSE <<>>)
        \o (IF ~fs[PLOT_SCRIPT] THEN <<PLOT_SCRIPT>> ELSE <<>>)
        \o (IF ~fs[MESH_FILE] THEN <<MESH_FILE>> ELSE <<>>)

\* Mutant of check_files: the missing files are reported but not raised.
check_files_noRaise ==
    /\ pc = "check_files"
    /\ UNCHANGED scriptVars
    /\ missing' = MissingOf(exists)
    /\ printed' = Append(printed, MsgNames("Missing files", missing'))
    /\ Goto("run_su2_simulation")
    /\ UNCHANGED <<exitStatus, envVars, exists, running, elapsed, procResults,
                   su2Launches, plotLaunches, artifactAtCheck>>

check_files ==
    /\ pc = "check_files"
    /\ UNCHANGED scriptVars
    /\ missing' = MissingOf(exists)
    /\ IF missing' # <<>>
         THEN MainFatal(MsgNames("Fatal error: Missing files", missing'))
         ELSE /\ printed' = Append(printed, Msg("Found", 0, <<>>))
              /\ Goto("run_su2_simulation")
              /\ UNCHANGED exitStatus
    /\ UNCHANGED <<envVars, exists, running, elapsed, procResults,
                   su2Launches, plotLaunches, artifactAtCheck>>

\* run_su2_simulation(), lines 45-54: subprocess.run starts SU2_CFD; when the
\* process cannot be started the OSError is caught at lines 73-75.
run_su2_simulation ==
    /\ pc = "run_su2_simulation"
    /\ UNCHANGED scriptVars
    /\ \E started \in BOOLEAN :
         IF started
           THEN /\ running' = running \cup {"SU2_CFD"}
                /\ su2Launches' = su2Launches + 1
                /\ elapsed' = 0
                /\ printed' = Append(printed, Msg("Starting SU2 simulation", 0, <<>>))
                /\ Goto("su2_wait")
                /\ UNCHANGED exitStatus
           ELSE /\ Exit1(<<Msg("Starting SU2 simulation", 0, <<>>),
                           Msg("SU2 simulation error: launch", 0, <<>>)>>)
                /\ UNCHANGED <<running, su2Launches, elapsed>>
    /\ UNCHANGED <<envVars, exists, missing, procResults, plotLaunches,
                   artifactAtCheck>>

\* Wall-clock time passes while an external process runs.
Tick ==
    /\ running # {}
    /\ UNCHANGED scriptVars
    /\ \/ pc = "su2_wait" /\ elapsed < SU2_TIMEOUT
       \/ pc = "plot_wait" /\ elapsed < MaxPlotSeconds
    /\ elapsed' = elapsed + TickSeconds
    /\ UNCHANGED <<pc, stages, exitStatus, envVars, exists, missing, running,
                   procResults, printed, su2Launches, plotLaunches,
                   artifactAtCheck>>

\* What the solver may have done to the solution artifact while it ran.
SolverWrites(fs, wrote) ==
    [fs EXCEPT ![OUTPUT_FILE] = fs[OUTPUT_FILE] \/ wrote]

\* The diagnostics of lines 68-71 for a solver that exited non-zero.
SU2FailedMsgs(code, out, err) ==
    << Msg("SU2 failed. Last 20 lines:", code, <<>>),
       Msg("tail", 0, join(LastItems(splitlines(out), TAIL_LINES))),
       Msg("Error output:", 0, <<>>),
       Msg("stderr", 0, err) >>

\* Mutant of su2_exit: a solver that exited non-zero is started again.
su2_exit_retry ==
    /\ pc = "su2_wait"
    /\ UNCHANGED scriptVars
    /\ "SU2_CFD" \in running
    /\ elapsed < SU2_TIMEOUT
    /\ \E code \in ExitCodes, out \in StdoutTexts, err \in StderrTexts :
         /\ returncode' = code
         /\ stdout' = out
         /\ stderr' = err
         /\ running' = running \ {"SU2_CFD"}
         /\ printed' = printed \o SU2FailedMsgs(code, out, err)
         /\ Goto(IF code = 0 THEN "verify_output" ELSE "run_su2_simulation")
    /\ UNCHANGED <<exitStatus, exists, envVars, missing, elapsed, su2_wrote,
                   plot_returncode, su2Launches, plotLaunches, artifactAtCheck>>

\* subprocess.run returns: the solver ended before the timeout. check=True
\* turns a non-zero exit code into CalledProcessError (lines 67-72).
su2_exit ==
    /\ pc = "su2_wait"
    /\ UNCHANGED scriptVars
    /\ "SU2_CFD" \in running
    /\ elapsed < SU2_TIMEOUT
    /\ \E code \in ExitCodes, out \in StdoutTexts, err \in StderrTexts,
          wrote \in BOOLEAN :
         /\ returncode' = code
         /\ stdout' = out
         /\ stderr' = err
         /\ su2_wrote' = wrote
         /\ exists' = SolverWrites(exists, wrote)
         /\ running' = running \ {"SU2_CFD"}
         /\ IF code = 0
              THEN /\ printed' = printed \o
                         << Msg("SU2 simulation succeeded.", 0, <<>>),
                            Msg("=== SU2 Output ===", 0, <<>>),
                            Msg("stdout", 0, out) >>
                   /\ Goto("verify_output")
                   /\ UNCHANGED exitStatus
              ELSE Exit1(SU2FailedMsgs(code, out, err))
    /\ UNCHANGED <<envVars, missing, elapsed, plot_returncode, su2Launches,
                   plotLaunches, artifactAtCheck>>

\* Mutant of su2_timeout: the timeout is reported and the run goes on to the
\* check of the output file.
su2_timeout_goesOn ==
    /\ pc = "su2_wait"
    /\ UNCHANGED scriptVars
    /\ "SU2_CFD" \in running
    /\ elapsed >= SU2_TIMEOUT
    /\ \E wrote \in BOOLEAN : /\ exists' = SolverWrites(exists, wrote)
                              /\ su2_wrote' = wrote
    /\ running' = running \ {"SU2_CFD"}
    /\ printed' = Append(printed, Msg("SU2 timed out after 1 hour.", 0, <<>>))
    /\ Goto("verify_output")
    /\ UNCHANGED <<exitStatus, envVars, missing, elapsed, returncode, stdout,
                   stderr, plot_returncode, su2Launches, plotLaunches,
                   artifactAtCheck>>

\* The timeout of subprocess.run elapses: the child is killed and
\* TimeoutExpired is raised (lines 64-66).
\* Mutant of su2_timeout: subprocess.run without timeout=, which never raises
\* TimeoutExpired.
su2_timeout_none ==
    /\ pc = "su2_wait"
    /\ "SU2_CFD" \in running
    /\ FALSE
    /\ UNCHANGED vars

su2_timeout ==
    /\ pc = "su2_wait"
    /\ UNCHANGED scriptVars
    /\ "SU2_CFD" \in running
    /\ elapsed >= SU2_TIMEOUT
    /\ \E wrote \in BOOLEAN : /\ exists' = SolverWrites(exists, wrote)
                              /\ su2_wrote' = wrote
    /\ running' = running \ {"SU2_CFD"}
    /\ Exit1(<<Msg("SU2 timed out after 1 hour.", 0, <<>>)>>)
    /\ UNCHANGED <<envVars, missing, elapsed, returncode, stdout, stderr,
                   plot_returncode, su2Launches, plotLaunches, artifactAtCheck>>

\* Mutant of verify_output: the file counts only when this run's solver
\* wrote it.
verify_output_fresh ==
    /\ pc = "verify_output"
    /\ UNCHANGED scriptVars
    /\ IF exists[OUTPUT_FILE] /\ su2_wrote
         THEN /\ artifactAtCheck' = "present"
              /\ Goto("run_plot_script")
              /\ UNCHANGED <<printed, exitStatus>>
         ELSE /\ artifactAtCheck' = "absent"
              /\ Exit1(<<Msg("SU2 simulation error: output file not found", 0, <<>>)>>)
    /\ UNCHANGED <<envVars, exists, missing, running, elapsed, procResults,
                   su2Launches, plotLaunches>>

\* Mutant of verify_output: the missing output file is noted, not raised.
verify_output_noRaise ==
    /\ pc = "verify_output"
    /\ UNCHANGED scriptVars
    /\ artifactAtCheck' = IF exists[OUTPUT_FILE] THEN "present" ELSE "absent"
    /\ Goto("run_plot_script")
    /\ UNCHANGED <<printed, exitStatus, envVars, exists, missing, running,
                   elapsed, procResults, su2Launches, plotLaunches>>

\* Lines 59-62: the output file must exist; the FileNotFoundError raised
\* otherwise is caught at lines 73-75.
verify_output ==
    /\ pc = "verify_output"
    /\ UNCHANGED scriptVars
    /\ IF exists[OUTPUT_FILE]
         THEN /\ artifactAtCheck' = "present"
              /\ Goto("run_plot_script")
              /\ UNCHANGED <<printed, exitStatus>>
         ELSE /\ artifactAtCheck' = "absent"
              /\ Exit1(<<Msg("SU2 simulation error: output file not found", 0, <<>>)>>)
    /\ UNCHANGED <<envVars, exists, missing, running, elapsed, procResults,
                   su2Launches, plotLaunches>>

\* run_plot_script(), lines 79-87: subprocess.run starts the interpreter on
\* the script; an OSError is not caught here and reaches main's handler.
run_plot_script ==
    /\ pc = "run_plot_script"
    /\ UNCHANGED scriptVars
    /\ \E started \in BOOLEAN :
         IF started
           THEN /\ running' = running \cup {"plot.py"}
                /\ plotLaunches' = plotLaunches + 1
                /\ elapsed' = 0
                /\ printed' = Append(printed, Msg("Running post-processing", 0, <<>>))
                /\ Goto("plot_wait")
                /\ UNCHANGED exitStatus
           ELSE /\ Exit1(<<Msg("Running post-processing", 0, <<>>),
                           Msg("Fatal error: launch", 0, <<>>)>>)
                /\ UNCHANGED <<running, plotLaunches, elapsed>>
    /\ UNCHANGED <<envVars, exists, missing, procResults, artifactAtCheck,
                   su2Launches>>

\* Mutant of plot_exit: subprocess.run without check=True, so that a non-zero
\* exit code of the script raises nothing.
plot_exit_unchecked ==
    /\ pc = "plot_wait"
    /\ UNCHANGED scriptVars
    /\ "plot.py" \in running
    /\ \E code \in ExitCodes :
         /\ running' = running \ {"plot.py"}
         /\ plot_returncode' = code
    /\ printed' = printed \o << Msg("Plotting completed.", 0, <<>>),
                                Msg("=== Plot Script Output ===", 0, <<>>) >>
    /\ Goto("completed")
    /\ UNCHANGED <<exitStatus, envVars, exists, missing, elapsed, su2Result,
                   su2Launches, plotLaunches, artifactAtCheck>>

\* Lines 88-94: subprocess.run returns or raises CalledProcessError once the
\* post-processing process has ended with exit code `code` and standard
\* error `err`.
PlotExitWith(code, err) ==
    /\ pc = "plot_wait"
    /\ "plot.py" \in running
    /\ running' = running \ {"plot.py"}
    /\ plot_returncode' = code
    /\ IF code = 0
         THEN /\ printed' = printed \o
                    << Msg("Plotting completed.", 0, <<>>),
                       Msg("=== Plot Script Output ===", 0, <<>>) >>
              /\ Goto("completed")
              /\ UNCHANGED exitStatus
         ELSE Exit1(<<Msg("Plot script failed", code, <<>>),
                      Msg("stderr", 0, err)>>)
    /\ UNCHANGED <<envVars, exists, missing, elapsed, su2Result, su2Launches,
                   plotLaunches, artifactAtCheck>>

\* The post-processing process ends (lines 88-94); it has no timeout.
plot_exit ==
    /\ UNCHANGED scriptVars
    /\ \E code \in ExitCodes, err \in StderrTexts : PlotExitWith(code, err)

\* main(), line 119, and the normal end of the program.
main_finish ==
    /\ pc = "completed"
    /\ UNCHANGED scriptVars
    /\ printed' = Append(printed, Msg("Workflow completed successfully!", 0, <<>>))
    /\ exitStatus' = 0
    /\ Goto("exited")
    /\ UNCHANGED <<envVars, exists, missing, running, elapsed, procResults,
                   su2Launches, plotLaunches, artifactAtCheck>>

Next ==
    \/ main_start
    \/ check_dependencies
    \/ check_files
    \/ run_su2_simulation
    \/ Tick
    \/ su2_exit
    \/ su2_timeout
    \/ verify_output
    \/ run_plot_script
    \/ plot_exit
    \/ main_finish

Spec == Init /\ [][Next]_vars

\* The steps the interpreter takes by itself: everything but the passing of
\* time and the ends of the two child processes.
ProgramStep ==
    \/ main_start
    \/ check_dependencies
    \/ check_files
    \/ run_su2_simulation
    \/ verify_output
    \/ run_plot_script
    \/ main_finish

\* The pipeline under the scheduling the code can rely on: the interpreter
\* keeps running, time passes while a child runs, and subprocess.run raises
\* TimeoutExpired once timeout=3600 (line 53) has elapsed. Nothing makes
\* either child process end: su2_exit and plot_exit carry no fairness.
LiveSpec ==
    /\ Init
    /\ [][Next]_vars
    /\ WF_vars(ProgramStep)
    /\ WF_vars(Tick)
    /\ WF_vars(su2_timeout)

\* The states of the pipeline, in the words of its design.
Done == pc = "exited" /\ exitStatus = 0
Failed == pc = "exited" /\ exitStatus # 0

\* ===================================================================
\* plot.py: load_exp_data, the parser of the experimental data file.
\* Text is a TLA+ string; the value of a float is the exact decimal
\* m * 10^(-e) with m not a multiple of 10 (or m = 0 and e = 0), or one of
\* the special values inf and nan.
\* ===================================================================
Ch(s, i) == SubSeq(s, i, i)
Whitespace == {" ", "\t", "\n", "\r"}
Digits == {"0", "1", "2", "3", "4", "5", "6", "7", "8", "9"}

DigitVal(c) ==
    CASE c = "0" -> 0 [] c = "1" -> 1 [] c = "2" -> 2 [] c = "3" -> 3
      [] c = "4" -> 4 [] c = "5" -> 5 [] c = "6" -> 6 [] c = "7" -> 7
      [] c = "8" -> 8 [] c = "9" -> 9

RECURSIVE Pow10(_)
Pow10(n) == IF n <= 0 THEN 1 ELSE 10 * Pow10(n - 1)

\* str.strip()
RECURSIVE lstrip(_)
lstrip(s) ==
    IF Len(s) > 0 /\ Ch(s, 1) \in Whitespace
      THEN lstrip(SubSeq(s, 2, Len(s))) ELSE s

RECURSIVE rstrip(_)
rstrip(s) ==
    IF Len(s) > 0 /\ Ch(s, Len(s)) \in Whitespace
      THEN rstrip(SubSeq(s, 1, Len(s) - 1)) ELSE s

strip(s) == rstrip(lstrip(s))

\* str.startswith(prefix)
startswith(s, prefix) ==
    Len(prefix) <= Len(s) /\ SubSeq(s, 1, Len(prefix)) = prefix

\* sub in s
contains(s, sub) ==
    \E i \in 1..(Len(s) - Len(sub) + 1) : SubSeq(s, i, i + Len(sub) - 1) = sub

\* str.split(sep) for a one-character separator: empty pieces are kept.
RECURSIVE SplitSepFrom(_, _, _, _)
SplitSepFrom(s, sep, i, cur) ==
    IF i > Len(s) THEN <<cur>>
    ELSE IF Ch(s, i) = sep THEN <<cur>> \o SplitSepFrom(s, sep, i + 1, "")
    ELSE SplitSepFrom(s, sep, i + 1, cur \o Ch(s, i))

split_sep(s, sep) == SplitSepFrom(s, sep, 1, "")

\* str.split(): pieces between runs of whitespace, none of them empty.
RECURSIVE SplitWsFrom(_, _, _)
SplitWsFrom(s, i, cur) ==
    IF i > Len(s) THEN (IF cur = "" THEN <<>> ELSE <<cur>>)
    ELSE IF Ch(s, i) \in Whitespace
      THEN (IF cur = "" THEN <<>> ELSE <<cur>>) \o SplitWsFrom(s, i + 1, "")
    ELSE SplitWsFrom(s, i + 1, cur \o Ch(s, i))

split(s) == SplitWsFrom(s, 1, "")

\* str.replace(old, ""): the occurrences of old, left to right, are removed.
RECURSIVE remove(_, _)
remove(s, old) ==
    IF Len(s) = 0 THEN ""
    ELSE IF startswith(s, old) THEN remove(SubSeq(s, Len(old) + 1, Len(s)), old)
    ELSE Ch(s, 1) \o remove(SubSeq(s, 2, Len(s)), old)

\* Python's index -k of a sequence; the result is <<>> for an IndexError.
FromEnd(seq, k) == IF Len(seq) < k THEN <<>> ELSE <<seq[Len(seq) - k + 1]>>

NoFloat == [ok |-> FALSE, kind |-> "none", m |-> 0, e |-> 0]
Special(kind, sign) == [ok |-> TRUE, kind |-> kind, m |-> sign, e |-> 0]

RECURSIVE Normal(_, _)
Normal(m, e) ==
    IF m = 0 THEN [ok |-> TRUE, kind |-> "num", m |-> 0, e |-> 0]
    ELSE IF m % 10 = 0 THEN Normal(m \div 10, e - 1)
    ELSE [ok |-> TRUE, kind |-> "num", m |-> m, e |-> e]

\* The longest run of digits of s that starts at index i: <<value, count>>.
RECURSIVE DigitRun(_, _, _, _)
DigitRun(s, i, val, cnt) ==
    IF i <= Len(s) /\ Ch(s, i) \in Digits
      THEN DigitRun(s, i + 1, 10 * val + DigitVal(Ch(s, i)), cnt + 1)
      ELSE <<val, cnt>>

\* float(s): optional sign, then inf, infinity, nan, or a decimal number
\* (digits with an optional point, at least one digit) with an optional
\* exponent; surrounding whitespace is ignored. ok is FALSE for a ValueError.
\* Not modelled: upper-case inf and nan, underscores between digits, and the
\* rounding to binary64 (the value is the exact decimal).
float(str) ==
    LET s == strip(str)
        signed == Len(s) > 0 /\ Ch(s, 1) \in {"+", "-"}
        sign == IF signed /\ Ch(s, 1) = "-" THEN -1 ELSE 1
        b == IF signed THEN 2 ELSE 1
        body == SubSeq(s, b, Len(s))
        ip == DigitRun(s, b, 0, 0)
        afterInt == b + ip[2]
        hasPoint == afterInt <= Len(s) /\ Ch(s, afterInt) = "."
        fp == IF hasPoint THEN DigitRun(s, afterInt + 1, 0, 0) ELSE <<0, 0>>
        afterFrac == IF hasPoint THEN afterInt + 1 + fp[2] ELSE afterInt
        hasExp == afterFrac <= Len(s) /\ Ch(s, afterFrac) \in {"e", "E"}
        expSigned == hasExp /\ afterFrac + 1 <= Len(s)
                       /\ Ch(s, afterFrac + 1) \in {"+", "-"}
        expSign == IF expSigned /\ Ch(s, afterFrac + 1) = "-" THEN -1 ELSE 1
        expStart == afterFrac + (IF expSigned THEN 2 ELSE 1)
        ep == IF hasExp THEN DigitRun(s, expStart, 0, 0) ELSE <<0, 0>>
        end == IF hasExp THEN expStart + ep[2] ELSE afterFrac
    IN  IF body \in {"inf", "infinity"} THEN Special("inf", sign)
        ELSE IF body = "nan" THEN Special("nan", 0)
        ELSE IF ip[2] + fp[2] = 0 THEN NoFloat
        ELSE IF hasExp /\ ep[2] = 0 THEN NoFloat
        ELSE IF end # Len(s) + 1 THEN NoFloat
        ELSE Normal(sign * (ip[1] * Pow10(fp[2]) + fp[1]),
                    fp[2] - expSign * ep[1])

\* int(x) of a float: truncation toward zero; ok is FALSE for the
\* OverflowError of inf and the ValueError of nan.
int(x) ==
    IF ~x.ok \/ x.kind # "num" THEN [ok |-> FALSE, val |-> 0]
    ELSE IF x.e <= 0 THEN [ok |-> TRUE, val |-> x.m * Pow10(-x.e)]
    ELSE IF x.m >= 0 THEN [ok |-> TRUE, val |-> x.m \div Pow10(x.e)]
    ELSE [ok |-> TRUE, val |-> -((-x.m) \div Pow10(x.e))]

\* ------------------------------------------------------------ parser bound
\* Largest number of lines of the experimental data file.
MaxFileLines == 4

\* The lines an experimental data file of the model is made of.
LineSet ==
    { "ZONE T=\"x=1mm\"",
      "ZONE T=\"x=50mm\"",
      "ZONE T=\"x=50.7mm\"",
      "ZONE T=\"inlet\"",
      "VARIABLES = \"X\" \"Y\" \"U\"",
      "1 0.5 22.4 0 0.0",
      " 1 -2.5 3.25 7 1.0 9",
      "1 2 3 4",
      "1 2 x 4 5",
      "# x=1mm",
      "  " }

Files == UNION {[1..n -> LineSet] : n \in 0..MaxFileLines}

\* Line 27: the lines that are not blank and do not start with '#', stripped.
RECURSIVE FilterLines(_)
FilterLines(raw) ==
    IF raw = <<>> THEN <<>>
    ELSE (IF strip(Head(raw)) # "" /\ ~startswith(Head(raw), "#")
            THEN <<strip(Head(raw))>> ELSE <<>>) \o FilterLines(Tail(raw))

\* dict: d[k] = v
Put(d, k, v) == [x \in DOMAIN d \cup {k} |-> IF x = k THEN v ELSE d[x]]

\* Lines 34-36 and 50-52: the open zone is stored when it has rows.
Commit_evenEmpty(d, cx, cd) == IF cx # <<>> THEN Put(d, cx[1], cd) ELSE d

Commit(d, cx, cd) == IF cx # <<>> /\ cd # <<>> THEN Put(d, cx[1], cd) ELSE d

\* Line 38: int(float(line.split('"')[-2].split('=')[-1].replace('mm','')));
\* ok is FALSE when any exception is raised.
ZoneKey(line) ==
    LET quoted == FromEnd(split_sep(line, "\""), 2)
    IN  IF quoted = <<>> THEN [ok |-> FALSE, val |-> 0]
        ELSE int(float(remove(FromEnd(split_sep(quoted[1], "="), 1)[1], "mm")))

\* Line 44: list(map(float, line.split())); ok is FALSE for a ValueError.
Parts(line) ==
    LET toks == split(line)
        vals == [i \in 1..Len(toks) |-> float(toks[i])]
    IN  [ok |-> \A i \in 1..Len(toks) : vals[i].ok, parts |-> vals]

\* Mutant of RowOf: the third value is taken one field too early.
RowOf_wrongField(parts) == <<parts[2], parts[3], parts[4]>>

\* Line 46: [parts[1], parts[2], parts[4]]
RowOf(parts) == <<parts[2], parts[3], parts[5]>>

\* load_exp_data is called on one of the given files, or on a missing file.
LoadStart(files) ==
    /\ exp_file_exists \in BOOLEAN
    /\ file_lines \in (IF exp_file_exists THEN files ELSE {<<>>})
    /\ lpc = "start"
    /\ lines = <<>>
    /\ idx = 0
    /\ current_x = <<>>
    /\ current_data = <<>>
    /\ exp_data = <<>>

\* The state of the pipeline while plot.py runs: it waits for the
\* post-processing process.
PipeAtPlotOn(fs) ==
    /\ pc = "plot_wait"
    /\ exitStatus = -1
    /\ su2_in_path = TRUE
    /\ version_info = <<3, 11, 0>>
    /\ exists = fs
    /\ missing = <<>>
    /\ running = {"plot.py"}
    /\ elapsed = 0
    /\ returncode = 0
    /\ stdout = <<>>
    /\ stderr = <<>>
    /\ su2_wrote = FALSE
    /\ plot_returncode = -1
    /\ printed = <<>>
    /\ su2Launches = 1
    /\ plotLaunches = 1
    /\ artifactAtCheck = "present"
    /\ stages = << "main", "check_dependencies", "check_files",
                   "run_su2_simulation", "su2_wait", "verify_output",
                   "run_plot_script", "plot_wait" >>

PipeAtPlot == PipeAtPlotOn([f \in AllFiles |-> TRUE])

\* plot.py has started and calls load_exp_data (lines 138-140).
PlotStart(configs, solutions) ==
    /\ delta_omega \in configs
    /\ solution \in solutions
    /\ ppc = "load"
    /\ results = <<>>
    /\ sidx = 0
    /\ sim_results = <<>>
    /\ plots_dir = FALSE
    /\ fidx = 0
    /\ images = <<>>
    /\ plot_out = <<Msg("Starting post-processing...", 0, <<>>)>>
    /\ plot_status = -1

LoadInit == LoadStart(Files) /\ PipeAtPlot /\ PlotStart({DELTA_OMEGA}, {"ok"})

\* Lines 20-30: the file is read and filtered; a missing file raises
\* FileNotFoundError, re-raised as ValueError at line 58.
load_open ==
    /\ lpc = "start"
    /\ IF exp_file_exists
         THEN /\ lines' = FilterLines(file_lines)
              /\ idx' = 1
              /\ lpc' = "loop"
         ELSE /\ lpc' = "raised"
              /\ UNCHANGED <<lines, idx>>
    /\ current_x' = <<>>
    /\ current_data' = <<>>
    /\ exp_data' = <<>>
    /\ UNCHANGED <<exp_file_exists, file_lines, pipeVars, plotVars>>

\* Mutant of load_line: a numeric zone marker does not empty current_data.
load_line_noReset ==
    /\ lpc = "loop"
    /\ idx <= Len(lines)
    /\ LET line == lines[idx]
       IN  IF contains(line, "ZONE T=")
             THEN /\ exp_data' = Commit(exp_data, current_x, current_data)
                  /\ LET key == ZoneKey(line)
                     IN  IF key.ok
                           THEN /\ current_x' = <<key.val>>
                                /\ UNCHANGED current_data
                           ELSE UNCHANGED <<current_x, current_data>>
           ELSE IF ~contains(line, "VARIABLES")
             THEN LET p == Parts(line)
                  IN  /\ current_data' =
                            IF p.ok /\ Len(p.parts) >= 5
                              THEN Append(current_data, RowOf(p.parts))
                              ELSE current_data
                      /\ UNCHANGED <<current_x, exp_data>>
           ELSE UNCHANGED <<current_x, current_data, exp_data>>
    /\ idx' = idx + 1
    /\ UNCHANGED <<exp_file_exists, file_lines, lpc, lines, pipeVars, plotVars>>

\* Lines 32-48: one iteration of the loop over the lines.
load_line ==
    /\ lpc = "loop"
    /\ idx <= Len(lines)
    /\ LET line == lines[idx]
       IN  IF contains(line, "ZONE T=")
             THEN /\ exp_data' = Commit(exp_data, current_x, current_data)
                  /\ LET key == ZoneKey(line)
                     IN  IF key.ok
                           THEN /\ current_x' = <<key.val>>
                                /\ current_data' = <<>>
                           ELSE UNCHANGED <<current_x, current_data>>
           ELSE IF ~contains(line, "VARIABLES")
             THEN LET p == Parts(line)
                  IN  /\ current_data' =
                            IF p.ok /\ Len(p.parts) >= 5
                              THEN Append(current_data, RowOf(p.parts))
                              ELSE current_data
                      /\ UNCHANGED <<current_x, exp_data>>
           ELSE UNCHANGED <<current_x, current_data, exp_data>>
    /\ idx' = idx + 1
    /\ UNCHANGED <<exp_file_exists, file_lines, lpc, lines, pipeVars, plotVars>>

\* Lines 50-55: after the last line the open zone is stored and the mapping
\* returned.
load_return ==
    /\ lpc = "loop"
    /\ idx > Len(lines)
    /\ exp_data' = Commit(exp_data, current_x, current_data)
    /\ plot_out' = Append(plot_out,
                          Msg("Loaded experimental data for positions", 0, <<>>))
    /\ lpc' = "returned"
    /\ UNCHANGED <<exp_file_exists, file_lines, lines, idx, current_x,
                   current_data, pipeVars, delta_omega, solution, ppc, results,
                   sidx, sim_results, plots_dir, fidx, images, plot_status>>

LoadNext ==
    \/ load_open
    \/ load_line
    \/ load_return

LoadSpec == LoadInit /\ [][LoadNext]_vars

\* Largest number of lines of a file made of zone markers and data rows only.
MaxZoneFileLines == 5

\* The zone markers of one key (50, and 50.7 truncated to 50), the marker with
\* a non-numeric label, and the data rows.
ZoneLineSet ==
    { "ZONE T=\"x=50mm\"",
      "ZONE T=\"x=50.7mm\"",
      "ZONE T=\"inlet\"",
      "1 0.5 22.4 0 0.0",
      " 1 -2.5 3.25 7 1.0 9" }

ZoneFiles == UNION {[1..n -> ZoneLineSet] : n \in 0..MaxZoneFileLines}

ZoneInit == LoadStart(ZoneFiles) /\ PipeAtPlot /\ PlotStart({DELTA_OMEGA}, {"ok"})

\* load_exp_data on the files of zone markers and data rows.
ZoneSpec == ZoneInit /\ [][LoadNext]_vars

\* ------------------------------------------- plot.py: sampling and plots
\* Largest number of lines of exp_data.dat when the whole script runs.
MaxPlotFileLines == 3

\* Zone markers of a configured position (1) and of a position that is not
\* configured (100), and a data row.
PlotLineSet ==
    { "ZONE T=\"x=1mm\"",
      "ZONE T=\"x=100mm\"",
      "1 0.5 22.4 0 0.0" }

PlotFiles == UNION {[1..n -> PlotLineSet] : n \in 0..MaxPlotFileLines}

\* The directory of the script when it starts: the input files are there,
\* vol_solution.vtu may have been removed since the pipeline checked it.
ScriptDirs == {fs \in [AllFiles -> BOOLEAN] : \A f \in InputFiles : fs[f]}

\* What vol_solution.vtu holds when it exists.
Solutions == {"unreadable", "no_velocity", "ok"}

\* The configured positions as a set.
Positions == {x_positions_mm[i] : i \in 1..Len(x_positions_mm)}

\* The length-scale mappings that lack the entries of some positions.
Configs == {[k \in keys |-> DELTA_OMEGA[k]] : keys \in SUBSET (DOMAIN DELTA_OMEGA)}

\* Lines 80-87: the profile along the line x = x_mm from y = -50 mm to
\* y = 50 mm at resolution 300, y divided by the length scale and U taken
\* from the field U_norm = (U - U1)/deltaU (lines 75-77).
Profile(x_mm, scale) ==
    [ y_norm |-> [line |-> <<x_mm, -50, 50, 300>>, over |-> scale],
      u_norm |-> [line |-> <<x_mm, -50, 50, 300>>, minus |-> U1, over |-> deltaU] ]

\* Lines 143-146: the handler of __main__ prints the error and calls exit(1).
MainRaise(msgs) ==
    /\ plot_out' = plot_out \o msgs \o
                      <<Msg("Error during post-processing", 0, <<>>)>>
    /\ plot_status' = 1
    /\ ppc' = "exit"

\* Lines 94-96: the handler of process_simulation_data prints the error and
\* raises it again; it reaches the handler of __main__.
ProcessRaise(msgs) ==
    MainRaise(msgs \o <<Msg("Error processing simulation data", 0, <<>>)>>)

\* Line 140 raised (lines 57-58): load_exp_data failed.
main_load_failed ==
    /\ ppc = "load"
    /\ lpc = "raised"
    /\ MainRaise(<<>>)
    /\ UNCHANGED <<delta_omega, solution, results, sidx, sim_results,
                   plots_dir, fidx, images, pipeVars, loadVars>>

\* Mutant of process_simulation_data: the handler does not raise again, and
\* the empty results are returned.
process_simulation_data_noReraise ==
    /\ ppc = "load"
    /\ lpc = "returned"
    /\ results' = <<>>
    /\ IF exists[OUTPUT_FILE] /\ solution = "ok"
         THEN /\ plot_out' = Append(plot_out, Msg("Processing solution file", 0, <<>>))
              /\ sidx' = 1
              /\ ppc' = "sample"
              /\ UNCHANGED <<sim_results, plots_dir, fidx>>
         ELSE /\ plot_out' = Append(plot_out,
                                   Msg("Error processing simulation data", 0, <<>>))
              /\ sim_results' = << <<>> >>
              /\ plots_dir' = TRUE
              /\ fidx' = 1
              /\ ppc' = "plots"
              /\ UNCHANGED sidx
    /\ UNCHANGED <<delta_omega, solution, plot_status, images, pipeVars, loadVars>>

\* Line 141 and lines 62-77: process_simulation_data is called once
\* load_exp_data has returned; it finds the solution file, reads it and
\* looks for the field Velocity.
process_simulation_data ==
    /\ ppc = "load"
    /\ lpc = "returned"
    /\ results' = <<>>
    /\ IF ~exists[OUTPUT_FILE]
         THEN ProcessRaise(<<>>) /\ UNCHANGED sidx
         ELSE IF solution # "ok"
           THEN /\ ProcessRaise(<<Msg("Processing solution file", 0, <<>>)>>)
                /\ UNCHANGED sidx
           ELSE /\ plot_out' = Append(plot_out, Msg("Processing solution file", 0, <<>>))
                /\ sidx' = 1
                /\ ppc' = "sample"
                /\ UNCHANGED plot_status
    /\ UNCHANGED <<delta_omega, solution, sim_results, plots_dir, fidx, images,
                   pipeVars, loadVars>>

\* Lines 79-92: one iteration of the loop over the positions;
\* delta_omega[x_mm] (line 86) raises KeyError inside the try of line 63.
sample_line ==
    /\ ppc = "sample"
    /\ sidx <= Len(x_positions_mm)
    /\ LET x_mm == x_positions_mm[sidx]
       IN  IF x_mm \in DOMAIN delta_omega
             THEN /\ results' = Put(results, x_mm, Profile(x_mm, delta_omega[x_mm]))
                  /\ sidx' = sidx + 1
                  /\ UNCHANGED <<ppc, plot_out, plot_status>>
             ELSE /\ ProcessRaise(<<>>)
                  /\ UNCHANGED <<results, sidx>>
    /\ UNCHANGED <<delta_omega, solution, sim_results, plots_dir, fidx, images,
                   pipeVars, loadVars>>

\* Line 98 and lines 142, 102-105: the results are returned and create_plots
\* is called; it makes the directory plots.
process_return ==
    /\ ppc = "sample"
    /\ sidx > Len(x_positions_mm)
    /\ sim_results' = <<results>>
    /\ plots_dir' = TRUE
    /\ fidx' = 1
    /\ ppc' = "plots"
    /\ UNCHANGED <<delta_omega, solution, results, sidx, images, plot_out,
                   plot_status, pipeVars, loadVars>>

\* The series of the figure of x_mm: the simulation profile when there is one
\* (lines 111-116), the experimental rows over the length scale when there
\* are some (lines 119-125).
Figure(x_mm) ==
    [ sim |-> IF x_mm \in DOMAIN sim_results[1]
                THEN <<sim_results[1][x_mm]>> ELSE <<>>,
      exp |-> IF x_mm \in DOMAIN exp_data
                THEN <<[rows |-> exp_data[x_mm], over |-> delta_omega[x_mm]]>>
                ELSE <<>> ]

\* Lines 107-135: one iteration of the loop over the configured positions:
\* the figure is drawn and saved as profile_x{x_mm}mm.png. delta_omega[x_mm]
\* (line 122) raises KeyError, which reaches the handler of __main__.
create_plot ==
    /\ ppc = "plots"
    /\ fidx <= Len(x_positions_mm)
    /\ LET x_mm == x_positions_mm[fidx]
       IN  IF x_mm \in DOMAIN exp_data /\ x_mm \notin DOMAIN delta_omega
             THEN /\ MainRaise(<<>>)
                  /\ UNCHANGED <<images, fidx>>
             ELSE /\ images' = Put(images, x_mm, Figure(x_mm))
                  /\ plot_out' = Append(plot_out, Msg("Saved plot", x_mm, <<>>))
                  /\ fidx' = fidx + 1
                  /\ UNCHANGED <<ppc, plot_status>>
    /\ UNCHANGED <<delta_omega, solution, results, sidx, sim_results, plots_dir,
                   pipeVars, loadVars>>

\* Line 143: create_plots has returned.
main_done ==
    /\ ppc = "plots"
    /\ fidx > Len(x_positions_mm)
    /\ plot_out' = Append(plot_out,
                          Msg("Post-processing completed successfully!", 0, <<>>))
    /\ plot_status' = 0
    /\ ppc' = "exit"
    /\ UNCHANGED <<delta_omega, solution, results, sidx, sim_results, plots_dir,
                   fidx, images, pipeVars, loadVars>>

\* The script's process ends with its exit status, and subprocess.run of
\* the pipeline returns or raises (automation.py, lines 88-94).
plot_process_exit ==
    /\ ppc = "exit"
    /\ ppc' = "gone"
    /\ \E err \in StderrTexts : PlotExitWith(plot_status, err)
    /\ UNCHANGED <<delta_omega, solution, results, sidx, sim_results, plots_dir,
                   fidx, images, plot_out, plot_status, loadVars>>

PlotNext ==
    \/ load_open
    \/ load_line
    \/ load_return
    \/ main_load_failed
    \/ process_simulation_data
    \/ sample_line
    \/ process_return
    \/ create_plot
    \/ main_done
    \/ plot_process_exit
    \/ main_finish

\* plot.py as the pipeline runs it, with the configuration of lines 10-16.
PlotInit ==
    /\ LoadStart(PlotFiles)
    /\ \E fs \in ScriptDirs : PipeAtPlotOn(fs)
    /\ PlotStart({DELTA_OMEGA}, Solutions)

PlotSpec == PlotInit /\ [][PlotNext]_vars

\* plot.py on a readable solution, with a length-scale mapping that may lack
\* entries.
ConfigInit ==
    /\ LoadStart(PlotFiles)
    /\ PipeAtPlot
    /\ PlotStart(Configs, {"ok"})

ConfigSpec == ConfigInit /\ [][PlotNext]_vars

\* ---------------------------------------------------------------- claims
Printed(tag) == \E i \in 1..Len(printed) : printed[i].tag = tag
PrintedText(tag, text) ==
    \E i \in 1..Len(printed) : printed[i].tag = tag /\ printed[i].text = text
Entered(stage) == \E i \in 1..Len(stages) : stages[i] = stage
Left(stage) == \E i \in 1..(Len(stages) - 1) : stages[i] = stage
IsPrefix(s, t) == Len(s) <= Len(t) /\ SubSeq(t, 1, Len(s)) = s

StageOrder == << "main", "check_dependencies", "check_files",
                 "run_su2_simulation", "su2_wait", "verify_output",
                 "run_plot_script", "plot_wait", "completed", "exited" >>

ValidationPassed ==
    /\ su2_in_path
    /\ ~TupleLess(version_info, MIN_PYTHON)
    /\ \A f \in InputFiles : exists[f]

\* C1: when the artifact check finds vol_solution.vtu absent, the
\* post-processing process is never launched and the pipeline is Failed with a
\* non-zero exit status, also when the solver reported exit code 0.
C1_MissingArtifactFails ==
    artifactAtCheck = "absent" =>
        /\ Failed
        /\ plotLaunches = 0
        /\ "plot.py" \notin running
        /\ ~Entered("run_plot_script")
        /\ ~Printed("Workflow completed successfully!")

C1_Witness ==
    /\ artifactAtCheck = "absent"
    /\ returncode = 0
    /\ su2Launches = 1
    /\ Failed

\* C2: the stages are entered in the order validation, solver run, artifact
\* check, post-processing run, the run stopping at the first failure; the
\* solver is launched only after validation passed, post-processing only
\* after the solver exited 0 and the artifact check passed, and once the
\* program has exited nothing more happens.
C2_OrderInv ==
    /\ \/ IsPrefix(stages, StageOrder)
       \/ /\ stages[Len(stages)] = "exited"
          /\ IsPrefix(SubSeq(stages, 1, Len(stages) - 1), StageOrder)
    /\ su2Launches > 0 => ValidationPassed
    /\ Entered("run_su2_simulation") => ValidationPassed
    /\ plotLaunches > 0 => su2Launches = 1 /\ returncode = 0
                             /\ artifactAtCheck = "present"
    /\ Failed => running = {}

C2_StageOrder ==
    /\ []C2_OrderInv
    /\ [][pc = "exited" =>
            /\ pc' = "exited"
            /\ exitStatus' = exitStatus
            /\ su2Launches' = su2Launches
            /\ plotLaunches' = plotLaunches
            /\ running' = running]_vars

C2_Witness ==
    /\ Failed
    /\ ~ValidationPassed
    /\ su2Launches = 0
    /\ plotLaunches = 0
    /\ stages[Len(stages) - 1] \in {"check_dependencies", "check_files"}

\* C3: the exit status is 0 exactly when validation passed, the solver exited
\* 0, the artifact existed and post-processing exited 0; a run that fails at
\* any stage exits non-zero and never prints the success message.
C3_ExitStatus ==
    /\ exitStatus \in {-1, 0, 1}
    /\ (pc = "exited") <=> (exitStatus # -1)
    /\ pc = "exited" =>
         (exitStatus = 0 <=>
             /\ ValidationPassed
             /\ su2Launches = 1 /\ returncode = 0
             /\ artifactAtCheck = "present"
             /\ plotLaunches = 1 /\ plot_returncode = 0)
    /\ Printed("Workflow completed successfully!") <=> exitStatus = 0

C3_Witness ==
    /\ Done
    /\ plot_returncode = 0
    /\ Printed("Workflow completed successfully!")

\* C4: when the solver exits non-zero the pipeline is Failed, exits non-zero,
\* launches no post-processing, and prints the solver's captured stderr and
\* exactly the last min(20, n) of its n captured stdout lines, in order.
C4_SolverNonZero ==
    returncode \notin {-1, 0} =>
        LET outLines == splitlines(stdout)
            n == Len(outLines)
            k == Min(20, n)
            lastK == [j \in 1..k |-> outLines[n - k + j]]
        IN  /\ Failed
            /\ plotLaunches = 0
            /\ ~Entered("verify_output")
            /\ PrintedText("stderr", stderr)
            /\ PrintedText("tail", join(lastK))
            /\ \A i \in 1..Len(printed) :
                 printed[i].tag = "tail" =>
                    /\ Len(splitlines(printed[i].text)) <= k
                    /\ printed[i].text = join(lastK)

C4_Witness ==
    /\ returncode = 2
    /\ Len(splitlines(stdout)) > 20
    /\ stderr # <<>>
    /\ Failed

\* C5: a solver still running when its timeout of 3600 s elapses is killed,
\* the pipeline is Failed with a non-zero exit status, and neither the
\* artifact check nor post-processing follows, even if an artifact exists.
C5_TimedOutInv ==
    /\ Printed("SU2 timed out after 1 hour.") =>
         /\ Failed
         /\ running = {}
         /\ artifactAtCheck = "unchecked"
         /\ ~Entered("verify_output")
         /\ plotLaunches = 0
    /\ "SU2_CFD" \in running => elapsed < 3600 + TickSeconds

C5_Timeout ==
    /\ []C5_TimedOutInv
    /\ [][(pc = "su2_wait" /\ elapsed >= 3600) =>
            /\ pc' = "exited"
            /\ exitStatus' = 1
            /\ running' = {}
            /\ Printed("SU2 timed out after 1 hour.")']_vars

C5_Witness ==
    /\ Printed("SU2 timed out after 1 hour.")
    /\ exists[OUTPUT_FILE]
    /\ elapsed >= 3600
    /\ Failed

\* C6: in one pipeline execution the solver process is launched at most once
\* and the post-processing process at most once, whatever the outcomes, and
\* at most one external process runs at any time.
C6_NoRetry ==
    /\ su2Launches <= 1
    /\ plotLaunches <= 1
    /\ Cardinality(running) <= 1
    /\ "SU2_CFD" \in running => pc = "su2_wait"
    /\ "plot.py" \in running => pc = "plot_wait"

C6_Witness ==
    /\ su2Launches = 1
    /\ plotLaunches = 1
    /\ plot_returncode = 1
    /\ Failed

\* C7: file validation succeeds exactly when the config file, the
\* post-processing script and the mesh file all exist; otherwise it fails with
\* an error whose list names exactly the missing ones among the three.
C7_CheckFiles ==
    Left("check_files") =>
        LET absent == {f \in InputFiles : ~exists[f]}
        IN  /\ Entered("run_su2_simulation") <=> absent = {}
            /\ {missing[i] : i \in 1..Len(missing)} = absent
            /\ Len(missing) = Cardinality(absent)
            /\ absent # {} =>
                 /\ Failed
                 /\ su2Launches = 0
                 /\ \E i \in 1..Len(printed) :
                      /\ printed[i].tag = "Fatal error: Missing files"
                      /\ printed[i].names = missing

C7_Witness ==
    /\ Left("check_files")
    /\ Len(missing) = 2
    /\ Failed

\* ------------------------------------------------ claims about the parser
\* The experimental data file as the format describes it: comment lines,
\* blank lines, zone-start markers, column headers and data rows.
IsComment(raw) == startswith(raw, "#")
IsBlank(raw) == strip(raw) = ""
IsZoneMarker(raw) == ~IsComment(raw) /\ ~IsBlank(raw) /\ contains(raw, "ZONE T=")
IsHeader(raw) == ~IsComment(raw) /\ ~IsZoneMarker(raw) /\ contains(raw, "VARIABLES")

\* What a line of the file is: a zone marker (with its key when the label is
\* numeric), or a valid data row (at least 5 fields, all numeric) with its
\* sample (fields 1, 2 and 4 counted from 0), or neither.
LineInfo(raw) ==
    LET marker == IsZoneMarker(raw)
        fields == split(raw)
        values == [i \in 1..Len(fields) |-> float(fields[i])]
        row == /\ ~IsComment(raw) /\ ~marker /\ ~IsHeader(raw)
               /\ Len(fields) >= 5
               /\ \A i \in 1..Len(fields) : values[i].ok
    IN  [ marker |-> marker,
          key |-> IF marker THEN ZoneKey(strip(raw)) ELSE [ok |-> FALSE, val |-> 0],
          row |-> row,
          sample |-> IF row THEN <<values[2], values[3], values[5]>> ELSE <<>> ]

\* LineInfo of every line of LineSet.
RECURSIVE InfoOn(_)
InfoOn(S) ==
    IF S = {} THEN <<>>
    ELSE LET l == CHOOSE x \in S : TRUE
         IN  (l :> LineInfo(l)) @@ InfoOn(S \ {l})

InfoTable == InfoOn(LineSet)

InfoOf(file) == [i \in 1..Len(file) |-> InfoTable[file[i]]]

Markers(info) == {i \in 1..Len(info) : info[i].marker}
NumericMarkers(info) == {i \in Markers(info) : info[i].key.ok}

\* The last line of the zone that the marker at line i starts: the line before
\* the next zone-start marker, or the last line of the file.
ZoneEnd(info, i) ==
    LET later == {j \in Markers(info) : j > i}
    IN  IF later = {} THEN Len(info)
        ELSE (CHOOSE j \in later : \A h \in later : j <= h) - 1

RECURSIVE SamplesBetween(_, _, _)
SamplesBetween(info, lo, hi) ==
    IF lo > hi THEN <<>>
    ELSE (IF info[lo].row THEN <<info[lo].sample>> ELSE <<>>)
            \o SamplesBetween(info, lo + 1, hi)

ZoneSamples(info, i) == SamplesBetween(info, i + 1, ZoneEnd(info, i))

DistinctKeys(info) ==
    \A i, j \in NumericMarkers(info) : info[i].key.val = info[j].key.val => i = j
AllLabelsNumeric(info) == NumericMarkers(info) = Markers(info)
WellFormed(info) == AllLabelsNumeric(info) /\ DistinctKeys(info)

\* C8: for a file whose zone markers have numeric labels and distinct keys,
\* the keys of the result are exactly the keys of the zones with at least one
\* valid data row; a zone without valid rows is absent, whether a marker or
\* the end of the input closes it.
C8_KeysOfNonEmptyZones ==
    lpc = "returned" =>
        LET info == InfoOf(file_lines)
        IN  WellFormed(info) =>
              /\ DOMAIN exp_data =
                    {info[i].key.val :
                        i \in {j \in Markers(info) : ZoneSamples(info, j) # <<>>}}
              /\ \A k \in DOMAIN exp_data : exp_data[k] # <<>>

C8_Witness ==
    /\ lpc = "returned"
    /\ LET info == InfoOf(file_lines)
       IN  /\ WellFormed(info)
           /\ Cardinality(Markers(info)) = 2
           /\ Cardinality(DOMAIN exp_data) = 1
           /\ \E i \in Markers(info) :
                ZoneSamples(info, i) = <<>> /\ ZoneEnd(info, i) < Len(info)

\* C9: a zone marker with a non-numeric label opens no zone: the zone open
\* before it is closed with exactly the rows accumulated before that marker,
\* and the data rows between it and the next numeric marker (or the end of
\* the input) are in no record of the result.
C9_InvalidLabelDropsRows ==
    lpc = "returned" =>
        LET info == InfoOf(file_lines)
            nonEmpty == {j \in NumericMarkers(info) : ZoneSamples(info, j) # <<>>}
        IN  DistinctKeys(info) =>
              /\ DOMAIN exp_data = {info[i].key.val : i \in nonEmpty}
              /\ \A i \in nonEmpty : exp_data[info[i].key.val] = ZoneSamples(info, i)

\* C10: for a file whose zone markers have numeric labels and distinct keys,
\* each record holds, in file order, exactly the samples (field 1, field 2,
\* field 4) of the rows of its zone that have at least 5 fields, all numeric;
\* no other line contributes a sample.
C10_SamplesOfZone ==
    lpc = "returned" =>
        LET info == InfoOf(file_lines)
        IN  WellFormed(info) =>
              /\ \A i \in Markers(info) :
                   ZoneSamples(info, i) # <<>> =>
                      /\ info[i].key.val \in DOMAIN exp_data
                      /\ exp_data[info[i].key.val] = ZoneSamples(info, i)
              /\ \A k \in DOMAIN exp_data :
                   \E i \in Markers(info) :
                      info[i].key.val = k /\ exp_data[k] = ZoneSamples(info, i)

C10_Witness ==
    /\ lpc = "returned"
    /\ LET info == InfoOf(file_lines)
       IN  /\ WellFormed(info)
           /\ \E i \in 1..Len(info) : ~info[i].row /\ ~info[i].marker
    /\ \E k \in DOMAIN exp_data :
         /\ Len(exp_data[k]) = 2
         /\ exp_data[k][1] # exp_data[k][2]

\* A valid data row stands before the first zone-start marker of the file.
HasOrphanRow(info) ==
    \E i \in 1..Len(info) : info[i].row /\ \A j \in Markers(info) : i < j

MarkersOfKey(info, k) == {i \in NumericMarkers(info) : info[i].key.val = k}
LastNonEmpty(info, k) ==
    LET ne == {i \in MarkersOfKey(info, k) : ZoneSamples(info, i) # <<>>}
    IN  CHOOSE i \in ne : \A h \in ne : h <= i

\* C16: when several zone markers map to the same integer key, the record of
\* that key holds the samples of the last of those zones that has a valid
\* row: a later duplicate with rows replaces the earlier record, a later
\* duplicate without rows leaves it.
C16_LaterDuplicateReplaces ==
    lpc = "returned" =>
        LET info == InfoOf(file_lines)
        IN  \A k \in {info[i].key.val : i \in NumericMarkers(info)} :
              (/\ Cardinality(MarkersOfKey(info, k)) >= 2
               /\ \E i \in MarkersOfKey(info, k) : ZoneSamples(info, i) # <<>>)
                 => /\ k \in DOMAIN exp_data
                    /\ exp_data[k] = ZoneSamples(info, LastNonEmpty(info, k))

\* The same statement on the files whose zone markers all have numeric labels.
C16_OnNumericLabels ==
    (lpc = "returned" /\ AllLabelsNumeric(InfoOf(file_lines)))
        => C16_LaterDuplicateReplaces

\* C17: the artifact check happens only after the solver exited 0 and tests
\* nothing but the existence of vol_solution.vtu at that moment: when the file
\* exists the pipeline goes on to post-processing, whoever wrote the file and
\* whenever, and when it does not exist the pipeline fails.
C17_PureExistenceTest ==
    [][pc = "verify_output" =>
         /\ returncode = 0
         /\ IF exists[OUTPUT_FILE]
              THEN pc' = "run_plot_script" /\ artifactAtCheck' = "present"
              ELSE Failed' /\ artifactAtCheck' = "absent"]_vars

\* The pipeline is Done on a solution file that was there before the run and
\* that this run's solver did not write.
C17_Witness ==
    /\ Done
    /\ ~su2_wrote
    /\ artifactAtCheck = "present"

\* C13: a solver that is waited for is always left again (it exits or its
\* timeout fires), and every execution ends in Done or Failed unless the
\* post-processing process runs forever, in which case the pipeline stays in
\* the post-processing stage for as long as that process runs.
C13_EndsUnlessPlotRunsForever ==
    /\ (pc = "su2_wait") ~> (pc # "su2_wait")
    /\ [](pc = "su2_wait" => elapsed < SU2_TIMEOUT + TickSeconds)
    /\ [][("plot.py" \in running /\ "plot.py" \in running') => pc' = "plot_wait"]_vars
    /\ <>[]("plot.py" \in running) \/ <>(Done \/ Failed)

\* Post-processing has been running for longer than the solver's timeout and
\* the pipeline is still waiting for it.
C13_Witness ==
    /\ pc = "plot_wait"
    /\ "plot.py" \in running
    /\ elapsed > SU2_TIMEOUT

\* process_simulation_data was called on a readable solution with the field
\* Velocity, and has ended.
SamplingEnded ==
    /\ lpc = "returned"
    /\ exists[OUTPUT_FILE]
    /\ solution = "ok"
    /\ ppc \in {"plots", "exit", "gone"}

AllKeys == Positions \cup DOMAIN exp_data \cup DOMAIN sim_results[1]

\* The image of key k holds the simulation profile of k if there is one and
\* the experimental record of k if there is one, and nothing else.
HoldsWhatExists(k) ==
    /\ images[k].sim = IF k \in DOMAIN sim_results[1]
                         THEN <<sim_results[1][k]>> ELSE <<>>
    /\ IF k \in DOMAIN exp_data
         THEN /\ Len(images[k].exp) = 1
              /\ images[k].exp[1].rows = exp_data[k]
         ELSE images[k].exp = <<>>

\* C12: once create_plots has returned there is exactly one image for every
\* key among the configured positions, the experimental keys and the
\* simulation keys, holding exactly the series that exist for the key.
C12_ImageForEveryKey ==
    plot_status = 0 =>
        /\ DOMAIN images = AllKeys
        /\ \A k \in DOMAIN images : HoldsWhatExists(k)

\* What the code does for C12's keys: the images are those of the configured
\* positions, each holding exactly the series that exist for it.
C12_OnConfiguredPositions ==
    plot_status = 0 =>
        /\ DOMAIN images = Positions
        /\ \A k \in DOMAIN images : HoldsWhatExists(k)

\* The solution artifact is absent, unreadable or without the field Velocity.
ArtifactError == ~exists[OUTPUT_FILE] \/ solution # "ok"

\* C14: on an artifact error no simulation profile is returned, no image is
\* written, the script exits with a non-zero status and the pipeline ends in
\* Failed; and images exist only when the experimental parse has returned and
\* the sampling has returned its results.
C14_ArtifactErrorsFatal ==
    /\ ArtifactError =>
          /\ sim_results = <<>>
          /\ images = <<>>
          /\ ~plots_dir
          /\ ppc \in {"exit", "gone"} => plot_status # 0
          /\ ppc = "gone" => Failed /\ plot_returncode # 0
          /\ ~Done
    /\ images # <<>> => lpc = "returned" /\ sim_results # <<>>

\* The script has ended on a solution without the field Velocity, after the
\* experimental data were parsed into a record.
C14_Witness ==
    /\ ppc = "gone"
    /\ exists[OUTPUT_FILE]
    /\ solution = "no_velocity"
    /\ DOMAIN exp_data # {}
    /\ Failed

====
